---- MODULE Spec2Model ----
(***************************************************************************)
(* Model of src/generate_secret.py: the command-line shell (lines 43-56)   *)
(* and generate_admin_secret (lines 13-41), one action per statement, with *)
(* the system clock and the random source as the environment.              *)
(*                                                                         *)
(* Text is a sequence of Unicode code points, bytes are sequences of       *)
(* 0..255.  str.encode('utf-8'), strftime, str.strip, PKCS7 padding, CBC   *)
(* chaining and bytes.hex are computed as the interpreter and the library  *)
(* compute them.  The two primitives whose internals are library code,     *)
(* SHA-256 and the AES-256 block permutation, are stood for by a           *)
(* deterministic 32-byte digest and a key-dependent bijection on 16-byte   *)
(* blocks: nothing below relies on more than that.  The import guard of    *)
(* lines 4-11 runs before any of this and is left out.                     *)
(***************************************************************************)
EXTENDS Integers, Sequences, FiniteSets

\* ------------------------------------------------------------------ bounds
\* longest secret (in characters) typed or passed on the command line
MaxSecretLen == 4
\* longest secret in the specification that runs the program repeatedly
MaxRunSecretLen == 1
\* how many times midnight may pass while the model runs
MaxTicks == 1
\* how many distinct values the random source may return
NumIVs == 2
\* how many times the program is run in SpecRuns
MaxRuns == 2

\* ------------------------------------------------------- program constants
\* padding.PKCS7(128): the block size in bytes
BlockSize == 16
\* os.urandom(16)
IVLen == 16
\* hashlib.sha256(...).digest(): the digest (and AES-256 key) length
KeyLen == 32

\* --------------------------------------------------------------- alphabet
\* The characters a secret is made of here: U+3000, a whitespace character of
\* three UTF-8 bytes; an underscore (U+005F); U+1F600, of four bytes; and
\* U+DC80, a lone surrogate, which is what a non-UTF-8 byte of a command-line
\* argument arrives as and which str.encode('utf-8') refuses.
Alphabet == {12288, 95, 128512, 56448}

\* the characters of the secrets in the specification of repeated runs
RunAlphabet == {95, 56448}

\* the value no text or byte sequence can be (code points and bytes are >= 0)
None == <<-1>>

\* what stdin holds when it is closed
EOF == <<-2>>

\* every text of at most n characters of A
Texts(A, n) == UNION {[1..k -> A] : k \in 0..n}

\* ------------------------------------------------------------ conversions
\* str.isspace() for the characters str.strip() removes
IsSpace(c) == c \in {9, 10, 11, 12, 13, 28, 29, 30, 31, 32, 133, 160, 12288}

RECURSIVE LStrip(_)
LStrip(s) == IF s # <<>> /\ IsSpace(Head(s)) THEN LStrip(Tail(s)) ELSE s

RECURSIVE RStrip(_)
RStrip(s) ==
    IF s # <<>> /\ IsSpace(s[Len(s)]) THEN RStrip(SubSeq(s, 1, Len(s) - 1)) ELSE s

\* str.strip()
Strip(s) == RStrip(LStrip(s))

\* a code point str.encode('utf-8') accepts
Encodable(c) == ~(55296 <= c /\ c <= 57343)

CanEncode(s) == \A i \in 1..Len(s) : Encodable(s[i])

\* the UTF-8 bytes of one code point
Utf8Char(c) ==
    IF c < 128 THEN <<c>>
    ELSE IF c < 2048 THEN <<192 + (c \div 64), 128 + (c % 64)>>
    ELSE IF c < 65536
        THEN <<224 + (c \div 4096), 128 + ((c \div 64) % 64), 128 + (c % 64)>>
    ELSE <<240 + (c \div 262144), 128 + ((c \div 4096) % 64),
           128 + ((c \div 64) % 64), 128 + (c % 64)>>

RECURSIVE Utf8(_)
\* str.encode('utf-8') of an encodable text
Utf8(s) == IF s = <<>> THEN <<>> ELSE Utf8Char(Head(s)) \o Utf8(Tail(s))

RECURSIVE Digits(_, _)
\* n in decimal, zero-padded to w digits
Digits(n, w) ==
    IF w = 0 THEN <<>> ELSE Digits(n \div 10, w - 1) \o <<48 + (n % 10)>>

\* strftime("%Y-%m-%d")
Strftime(d) ==
    Digits(d.year, 4) \o <<45>> \o Digits(d.month, 2) \o <<45>> \o Digits(d.day, 2)

\* "_xy521"
Suffix == <<95, 120, 121, 53, 50, 49>>

\* f"{date_str}_{admin_secret_env}_xy521"
Compose(d, s) == d \o <<95>> \o s \o Suffix

HexDigit(n) == IF n < 10 THEN 48 + n ELSE 87 + n

\* HexByte as '%x' % b would write it: no leading zero below 16
HexByteUnpadded(b) ==
    IF b < 16 THEN <<HexDigit(b)>> ELSE <<HexDigit(b \div 16), HexDigit(b % 16)>>

\* the two lowercase hex digits of one byte
HexByte(b) == <<HexDigit(b \div 16), HexDigit(b % 16)>>

RECURSIVE Hex(_)
\* bytes.hex()
Hex(bs) == IF bs = <<>> THEN <<>> ELSE HexByte(Head(bs)) \o Hex(Tail(bs))

\* ------------------------------------------------------------- primitives
RECURSIVE XorBits(_, _)
XorBits(a, b) ==
    IF a = 0 THEN b
    ELSE IF b = 0 THEN a
    ELSE ((a + b) % 2) + 2 * XorBits(a \div 2, b \div 2)

\* exclusive-or of two four-bit values, tabulated
XorNibble == [a \in 0..15 |-> [b \in 0..15 |-> XorBits(a, b)]]

\* exclusive-or of two bytes
Xor(a, b) == 16 * XorNibble[a \div 16][b \div 16] + XorNibble[a % 16][b % 16]

RECURSIVE Sum(_, _)
\* the sum of the bytes of msg from the j-th on
Sum(msg, j) == IF j > Len(msg) THEN 0 ELSE msg[j] + Sum(msg, j + 1)

RECURSIVE PosSum(_, _)
\* the same sum with each byte times its position
PosSum(msg, j) == IF j > Len(msg) THEN 0 ELSE j * msg[j] + PosSum(msg, j + 1)

Digest(s, p, n) == [i \in 1..KeyLen |-> (i * s + p + 31 * n + 7 * i) % 256]

\* hashlib.sha256(msg).digest(): 32 bytes, a function of msg alone
Sha256(msg) == Digest(Sum(msg, 1), PosSum(msg, 1), Len(msg))

\* the AES-256 block permutation under key k
AESEncryptBlock(k, b) ==
    [i \in 1..BlockSize |->
        (Xor(b[(i % BlockSize) + 1], k[i]) + k[BlockSize + i]) % 256]

XorBlock(a, b) == [i \in 1..BlockSize |-> Xor(a[i], b[i])]

RECURSIVE CBCEncrypt(_, _, _)
\* Cipher(algorithms.AES(k), modes.CBC(prev)).encryptor() over whole blocks
CBCEncrypt(k, prev, data) ==
    IF data = <<>> THEN <<>>
    ELSE LET c == AESEncryptBlock(k, XorBlock(SubSeq(data, 1, BlockSize), prev))
         IN  c \o CBCEncrypt(k, c, SubSeq(data, BlockSize + 1, Len(data)))

\* PKCS7Pad padding only up to the next boundary: nothing when already there
PKCS7PadToBoundary(data) ==
    LET n == (BlockSize - (Len(data) % BlockSize)) % BlockSize
    IN  data \o [i \in 1..n |-> n]

\* padding.PKCS7(128).padder(): n bytes of value n, 1 <= n <= 16
PKCS7Pad(data) ==
    LET n == BlockSize - (Len(data) % BlockSize)
    IN  data \o [i \in 1..n |-> n]

\* os.urandom(16): the values the random source may return
IVs == {[i \in 1..IVLen |-> (151 * v + 29 * i + 3) % 256] : v \in 0..(NumIVs - 1)}

\* ------------------------------------------------------------------ clock
IsLeap(y) == (y % 4 = 0 /\ y % 100 # 0) \/ y % 400 = 0

DaysIn(y, m) ==
    IF m = 2 THEN (IF IsLeap(y) THEN 29 ELSE 28)
    ELSE IF m \in {4, 6, 9, 11} THEN 30 ELSE 31

NextDay(d) ==
    IF d.day < DaysIn(d.year, d.month) THEN [d EXCEPT !.day = d.day + 1]
    ELSE IF d.month < 12 THEN [year |-> d.year, month |-> d.month + 1, day |-> 1]
    ELSE [year |-> d.year + 1, month |-> 1, day |-> 1]

\* the local date when the model starts
StartDate == [year |-> 2026, month |-> 12, day |-> 31]

RECURSIVE DateAfter(_, _)
DateAfter(d, n) == IF n = 0 THEN d ELSE DateAfter(NextDay(d), n - 1)

\* no date read yet
NoDate == [year |-> 0, month |-> 0, day |-> 0]

\* ------------------------------------------------------------------ state
VARIABLES
    pc,                \* the statement about to run
    argv,              \* sys.argv[1:]
    stdin,             \* the line waiting on standard input, or EOF
    my_secret,         \* line 49 / 51
    admin_secret_env,  \* the parameter of generate_admin_secret
    now,               \* the value datetime.now() returned
    date_str,
    plain_text,
    key,
    iv,
    padded_data,
    ciphertext,
    result,
    ret,               \* what generate_admin_secret returned
    stdout,            \* what was written to standard output, in order
    stderr,            \* what was written to standard error, in order
    exit_code,         \* the process's exit status, -1 while it runs
    clock,             \* the system clock: midnights passed since the start
    clock_reads,       \* calls of datetime.now() in this run
    entropy,           \* the random sources asked for bytes in this run
    history            \* the runs that have ended, in order

locals ==
    <<my_secret, admin_secret_env, now, date_str, plain_text, key, iv,
      padded_data, ciphertext, result, ret>>

vars ==
    <<pc, argv, stdin, my_secret, admin_secret_env, now, date_str, plain_text,
      key, iv, padded_data, ciphertext, result, ret, stdout, stderr, exit_code,
      clock, clock_reads, entropy, history>>

\* datetime.now() at the current clock
Today == DateAfter(StartDate, clock)

\* one print(...) call: the statement's format, the variable it interpolates
\* and that variable's value; nl says the write ends its line
Line(fmt, arg, text) == [fmt |-> fmt, arg |-> arg, text |-> text, nl |-> TRUE]

\* the prompt input() writes, which ends no line
Prompt == [fmt |-> "prompt", arg |-> "none", text |-> <<>>, nl |-> FALSE]

\* the ways the program is started with secrets of at most n characters of
\* A: with the secret as its argument, or with none and a line (or nothing)
\* on standard input
Starts(A, n) ==
    {[argv |-> <<s>>, stdin |-> EOF] : s \in Texts(A, n)}
        \cup {[argv |-> <<>>, stdin |-> l] : l \in Texts(A, n) \cup {EOF}}

InitWith(A, n) ==
    /\ \E st \in Starts(A, n) : argv = st.argv /\ stdin = st.stdin
    /\ pc = "L48"
    /\ my_secret = None
    /\ admin_secret_env = None
    /\ now = NoDate
    /\ date_str = None
    /\ plain_text = None
    /\ key = None
    /\ iv = None
    /\ padded_data = None
    /\ ciphertext = None
    /\ result = None
    /\ ret = None
    /\ stdout = <<>>
    /\ stderr = <<>>
    /\ exit_code = -1
    /\ clock = 0
    /\ clock_reads = 0
    /\ entropy = <<>>
    /\ history = <<>>

Init == InitWith(Alphabet, MaxSecretLen)

\* ------------------------------------------------------------ environment
\* midnight passes
Tick ==
    /\ clock < MaxTicks
    /\ clock' = clock + 1
    /\ UNCHANGED <<pc, argv, stdin, locals, stdout, stderr, exit_code,
                   clock_reads, entropy, history>>

\* --------------------------------------------------------- the shell, 43-56
\* lines 48-49: the secret is the first argument, as it is
ReadArgv ==
    /\ pc = "L48"
    /\ Len(argv) > 0
    /\ my_secret' = argv[1]
    /\ pc' = "L53"
    /\ UNCHANGED <<argv, stdin, admin_secret_env, now, date_str, plain_text, key,
                   iv, padded_data, ciphertext, result, ret, stdout, stderr,
                   exit_code, clock, clock_reads, entropy, history>>

\* lines 50-51: no argument; input() writes the prompt, reads a line, and
\* the line is stripped
ReadInput ==
    /\ pc = "L48"
    /\ Len(argv) = 0
    /\ stdin # EOF
    /\ stdout' = Append(stdout, Prompt)
    /\ my_secret' = Strip(stdin)
    /\ pc' = "L53"
    /\ UNCHANGED <<argv, stdin, admin_secret_env, now, date_str, plain_text, key,
                   iv, padded_data, ciphertext, result, ret, stderr, exit_code,
                   clock, clock_reads, entropy, history>>

\* line 51 with standard input closed: input() raises EOFError
ReadInputEOF ==
    /\ pc = "L48"
    /\ Len(argv) = 0
    /\ stdin = EOF
    /\ stdout' = Append(stdout, Prompt)
    /\ pc' = "unhandled"
    /\ UNCHANGED <<argv, stdin, locals, stderr, exit_code, clock, clock_reads,
                   entropy, history>>

\* lines 53-54: `not my_secret`, the error message
RejectEmpty ==
    /\ pc = "L53"
    /\ my_secret = <<>>
    /\ stdout' = Append(stdout, Line("error", "none", <<>>))
    /\ pc' = "end"
    /\ UNCHANGED <<argv, stdin, locals, stderr, exit_code, clock, clock_reads,
                   entropy, history>>

\* lines 55-56: the call
Call ==
    /\ pc = "L53"
    /\ my_secret # <<>>
    /\ admin_secret_env' = my_secret
    /\ pc' = "L15"
    /\ UNCHANGED <<argv, stdin, my_secret, now, date_str, plain_text, key, iv,
                   padded_data, ciphertext, result, ret, stdout, stderr,
                   exit_code, clock, clock_reads, entropy, history>>

\* ------------------------------------------ generate_admin_secret, 13-41
\* line 15: the one read of the clock, formatted
ReadClock ==
    /\ pc = "L15"
    /\ now' = Today
    /\ date_str' = Strftime(Today)
    /\ clock_reads' = clock_reads + 1
    /\ pc' = "L16"
    /\ UNCHANGED <<argv, stdin, my_secret, admin_secret_env, plain_text, key, iv,
                   padded_data, ciphertext, result, ret, stdout, stderr,
                   exit_code, clock, entropy, history>>

\* line 16
ComposePlainText ==
    /\ pc = "L16"
    /\ plain_text' = Compose(date_str, admin_secret_env)
    /\ pc' = "L19"
    /\ UNCHANGED <<argv, stdin, my_secret, admin_secret_env, now, date_str, key,
                   iv, padded_data, ciphertext, result, ret, stdout, stderr,
                   exit_code, clock, clock_reads, entropy, history>>

\* KeyOf hashing the composed plaintext in place of the secret
KeyOfPlainText(secret) == Sha256(Utf8(Compose(date_str, secret)))

\* the key of a secret: SHA-256 of its UTF-8 bytes
KeyOf(secret) == Sha256(Utf8(secret))

\* line 19
DeriveKey ==
    /\ pc = "L19"
    /\ CanEncode(admin_secret_env)
    /\ key' = KeyOf(admin_secret_env)
    /\ pc' = "L22"
    /\ UNCHANGED <<argv, stdin, my_secret, admin_secret_env, now, date_str,
                   plain_text, iv, padded_data, ciphertext, result, ret, stdout,
                   stderr, exit_code, clock, clock_reads, entropy, history>>

\* line 19 when the secret holds a surrogate: encode raises UnicodeEncodeError
DeriveKeyEncodeError ==
    /\ pc = "L19"
    /\ ~CanEncode(admin_secret_env)
    /\ pc' = "unhandled"
    /\ UNCHANGED <<argv, stdin, locals, stdout, stderr, exit_code, clock,
                   clock_reads, entropy, history>>

\* line 22: os.urandom(16) returns 16 bytes
DrawIV ==
    /\ pc = "L22"
    /\ \E v \in IVs : iv' = v
    /\ entropy' = Append(entropy, "os.urandom")
    /\ pc' = "L26"
    /\ UNCHANGED <<argv, stdin, my_secret, admin_secret_env, now, date_str,
                   plain_text, key, padded_data, ciphertext, result, ret, stdout,
                   stderr, exit_code, clock, clock_reads, history>>

\* DrawIVFails falling back on another generator in place of raising
DrawIVFallback ==
    /\ pc = "L22"
    /\ \E v \in IVs : iv' = v
    /\ entropy' = entropy \o <<"os.urandom", "random">>
    /\ pc' = "L26"
    /\ UNCHANGED <<argv, stdin, my_secret, admin_secret_env, now, date_str,
                   plain_text, key, padded_data, ciphertext, result, ret, stdout,
                   stderr, exit_code, clock, clock_reads, history>>

\* line 22 when the system has no randomness to give: os.urandom raises
DrawIVFails ==
    /\ pc = "L22"
    /\ entropy' = Append(entropy, "os.urandom")
    /\ pc' = "unhandled"
    /\ UNCHANGED <<argv, stdin, locals, stdout, stderr, exit_code, clock,
                   clock_reads, history>>

\* lines 25-26 (plain_text encodes whenever the secret did on line 19)
Pad ==
    /\ pc = "L26"
    /\ padded_data' = PKCS7Pad(Utf8(plain_text))
    /\ pc' = "L29"
    /\ UNCHANGED <<argv, stdin, my_secret, admin_secret_env, now, date_str,
                   plain_text, key, iv, ciphertext, result, ret, stdout, stderr,
                   exit_code, clock, clock_reads, entropy, history>>

\* lines 29-31
Encrypt ==
    /\ pc = "L29"
    /\ ciphertext' = CBCEncrypt(key, iv, padded_data)
    /\ pc' = "L34"
    /\ UNCHANGED <<argv, stdin, my_secret, admin_secret_env, now, date_str,
                   plain_text, key, iv, padded_data, result, ret, stdout, stderr,
                   exit_code, clock, clock_reads, entropy, history>>

\* Token without the IV in front: ciphertext.hex()
TokenWithoutIV(i, c) == Hex(c)

\* (iv + ciphertext).hex()
Token(i, c) == Hex(i \o c)

\* line 34
Encode ==
    /\ pc = "L34"
    /\ result' = Token(iv, ciphertext)
    /\ pc' = "L36"
    /\ UNCHANGED <<argv, stdin, my_secret, admin_secret_env, now, date_str,
                   plain_text, key, iv, padded_data, ciphertext, ret, stdout,
                   stderr, exit_code, clock, clock_reads, entropy, history>>

\* a print statement of generate_admin_secret: at `at`, writes `line`, goes to `to`
PrintAt(at, line, to) ==
    /\ pc = at
    /\ stdout' = Append(stdout, line)
    /\ pc' = to
    /\ UNCHANGED <<argv, stdin, locals, stderr, exit_code, clock, clock_reads,
                   entropy, history>>

\* PrintHeader with the key dumped into the header line
PrintHeaderWithKey == PrintAt("L36", Line("header", "key", Hex(key)), "L37")

\* line 36
PrintHeader == PrintAt("L36", Line("header", "none", <<>>), "L37")

\* PrintDate formatting a second read of the clock
PrintDateFromClock == PrintAt("L37", Line("date", "date_str", Strftime(Today)), "L38")

\* PrintDate and PrintPlainText with their lines exchanged
PrintPlainTextFirst == PrintAt("L37", Line("plain", "plain_text", plain_text), "L38")

\* line 37
PrintDate == PrintAt("L37", Line("date", "date_str", date_str), "L38")

\* line 38
PrintPlainText == PrintAt("L38", Line("plain", "plain_text", plain_text), "L39")

\* line 39
PrintToken == PrintAt("L39", Line("token", "result", result), "L40")

\* line 40
PrintFooter == PrintAt("L40", Line("footer", "none", <<>>), "L41")

\* line 41, back in the shell at the end of the script
Return ==
    /\ pc = "L41"
    /\ ret' = result
    /\ pc' = "end"
    /\ UNCHANGED <<argv, stdin, my_secret, admin_secret_env, now, date_str,
                   plain_text, key, iv, padded_data, ciphertext, result, stdout,
                   stderr, exit_code, clock, clock_reads, entropy, history>>

\* ------------------------------------------------------------ process end
\* what a run leaves behind: how it ended ("token", "empty" for the empty
\* secret refused, "raised"), its exit status and, when it produced a token,
\* the token with the secret, the date and the IV that went into it
Record(outcome, code) ==
    IF outcome = "token"
    THEN [secret |-> my_secret, date |-> date_str, iv |-> iv, token |-> ret,
          outcome |-> outcome, exit_code |-> code]
    ELSE [secret |-> None, date |-> None, iv |-> None, token |-> None,
          outcome |-> outcome, exit_code |-> code]

\* the script runs off its end: the interpreter exits with status 0
Exit ==
    /\ pc = "end"
    /\ exit_code' = 0
    /\ history' = Append(history, Record(IF ret # None THEN "token" ELSE "empty", 0))
    /\ pc' = "exited"
    /\ UNCHANGED <<argv, stdin, locals, stdout, stderr, clock, clock_reads,
                   entropy>>

\* an exception nothing catches: traceback on stderr, exit status 1
Unhandled ==
    /\ pc = "unhandled"
    /\ stderr' = Append(stderr, "traceback")
    /\ exit_code' = 1
    /\ history' = Append(history, Record("raised", 1))
    /\ pc' = "exited"
    /\ UNCHANGED <<argv, stdin, locals, stdout, clock, clock_reads, entropy>>

\* the program is started again (a new process: nothing but the clock and
\* what earlier runs produced carries over)
Rerun ==
    /\ pc = "exited"
    /\ Len(history) < MaxRuns
    /\ \E st \in Starts(RunAlphabet, MaxRunSecretLen) : argv' = st.argv /\ stdin' = st.stdin
    /\ pc' = "L48"
    /\ my_secret' = None
    /\ admin_secret_env' = None
    /\ now' = NoDate
    /\ date_str' = None
    /\ plain_text' = None
    /\ key' = None
    /\ iv' = None
    /\ padded_data' = None
    /\ ciphertext' = None
    /\ result' = None
    /\ ret' = None
    /\ stdout' = <<>>
    /\ stderr' = <<>>
    /\ exit_code' = -1
    /\ clock_reads' = 0
    /\ entropy' = <<>>
    /\ UNCHANGED <<clock, history>>

\* --------------------------------------------------------- specifications
Next ==
    \/ Tick
    \/ ReadArgv
    \/ ReadInput
    \/ ReadInputEOF
    \/ RejectEmpty
    \/ Call
    \/ ReadClock
    \/ ComposePlainText
    \/ DeriveKey
    \/ DeriveKeyEncodeError
    \/ DrawIV
    \/ DrawIVFails
    \/ Pad
    \/ Encrypt
    \/ Encode
    \/ PrintHeader
    \/ PrintDate
    \/ PrintPlainText
    \/ PrintToken
    \/ PrintFooter
    \/ Return
    \/ Exit
    \/ Unhandled

\* one run of the program
Spec == Init /\ [][Next]_vars

InitRuns == InitWith(RunAlphabet, MaxRunSecretLen)

NextRuns == Next \/ Rerun

\* up to MaxRuns runs, one after the other
SpecRuns == InitRuns /\ [][NextRuns]_vars

\* ------------------------------------------------- the reader of a token
\* What the party holding the same secret does with a token.  None of this
\* is in generate_secret.py: it is the inverse the round-trip claims speak
\* of, written out so that they can be checked.
HexVal(c) ==
    IF 48 <= c /\ c <= 57 THEN c - 48
    ELSE IF 97 <= c /\ c <= 102 THEN c - 87
    ELSE -1

IsLowerHex(h) == \A i \in 1..Len(h) : HexVal(h[i]) >= 0

\* bytes.fromhex of an even-length lowercase hex text
Unhex(h) == [i \in 1..(Len(h) \div 2) |-> 16 * HexVal(h[2 * i - 1]) + HexVal(h[2 * i])]

\* the inverse of the block permutation under key k
AESDecryptBlock(k, c) ==
    [j \in 1..BlockSize |->
        LET i == ((j + BlockSize - 2) % BlockSize) + 1
        IN  Xor((c[i] - k[BlockSize + i] + 256) % 256, k[i])]

RECURSIVE CBCDecrypt(_, _, _)
CBCDecrypt(k, prev, data) ==
    IF data = <<>> THEN <<>>
    ELSE LET c == SubSeq(data, 1, BlockSize)
         IN  XorBlock(AESDecryptBlock(k, c), prev)
                 \o CBCDecrypt(k, c, SubSeq(data, BlockSize + 1, Len(data)))

\* PKCS#7 unpadding; None when the padding is not well formed
PKCS7Unpad(data) ==
    IF data = <<>> \/ Len(data) % BlockSize # 0 THEN None
    ELSE LET n == data[Len(data)]
         IN  IF /\ 1 <= n
                /\ n <= BlockSize
                /\ \A i \in (Len(data) - n + 1)..Len(data) : data[i] = n
             THEN SubSeq(data, 1, Len(data) - n)
             ELSE None

\* what a holder of `secret` reads out of `token`: the first 16 bytes are the
\* IV, the rest is decrypted under SHA-256(secret) and unpadded
Open(secret, token) ==
    LET raw == Unhex(token)
    IN  PKCS7Unpad(CBCDecrypt(Sha256(Utf8(secret)),
                              SubSeq(raw, 1, IVLen),
                              SubSeq(raw, IVLen + 1, Len(raw))))

\* ------------------------------------------------------- claim vocabulary
IsLine(e) == e.nl

\* the lines written to standard output (the prompt ends no line)
StdoutLines == SelectSeq(stdout, IsLine)

IsPrefix(a, b) == Len(a) <= Len(b) /\ SubSeq(b, 1, Len(a)) = a

\* s occurs in t as a run of consecutive characters
Contains(t, s) == \E k \in 0..(Len(t) - Len(s)) : SubSeq(t, k + 1, k + Len(s)) = s

\* the statements of generate_admin_secret
GenPcs ==
    {"L15", "L16", "L19", "L22", "L26", "L29", "L34", "L36", "L37", "L38",
     "L39", "L40", "L41"}

\* the secret handed to the program, before any trimming
SecretGiven == IF Len(argv) > 0 THEN argv[1] ELSE stdin

\* some line of the given format is on standard output
Printed(fmt) == \E i \in 1..Len(stdout) : stdout[i].fmt = fmt

\* the five lines generate_admin_secret prints, from its variables
FiveLines ==
    <<Line("header", "none", <<>>),
      Line("date", "date_str", date_str),
      Line("plain", "plain_text", plain_text),
      Line("token", "result", result),
      Line("footer", "none", <<>>)>>

\* ----------------------------------------------------------------- claims

\* C1: a secret that is empty once trimmed, whether it came as the argument
\* or from the prompt, never reaches generate_admin_secret, and no token is
\* returned or printed for it.
C1_BlankSecretYieldsNoToken ==
    (SecretGiven # EOF /\ Strip(SecretGiven) = <<>>)
        => /\ pc \notin GenPcs
           /\ admin_secret_env = None
           /\ ret = None
           /\ ~Printed("token")

\* C2: a run that refused an empty secret ends without an unhandled
\* exception, and its exit status differs from the exit status of every run
\* that produced a token.
C2_EmptySecretExitStatusDiffers ==
    \A i, j \in 1..Len(history) :
        (history[i].outcome = "empty" /\ history[j].outcome = "token")
            => history[i].exit_code # history[j].exit_code

\* C3: the token returned is the lowercase hex of IV || Ciphertext: an even
\* number of hex digits, 2 x (16 + len(Ciphertext)) of them, decoding to at least 32
\* bytes of which those after the first 16 are a positive multiple of 16, as
\* many as the padded plaintext.
C3_TokenShape ==
    /\ ret \in {None, result}
    /\ (pc = "end" /\ ret # None)
           => LET raw == Unhex(ret)
              IN  /\ Len(ret) % 2 = 0
                  /\ IsLowerHex(ret)
                  /\ raw = iv \o ciphertext
                  /\ Len(ret) = 2 * (IVLen + Len(ciphertext))
                  /\ Len(raw) >= 2 * BlockSize
                  /\ Len(raw) - IVLen > 0
                  /\ (Len(raw) - IVLen) % BlockSize = 0
                  /\ Len(raw) - IVLen = Len(padded_data)

\* C3's case: a token of more than two ciphertext blocks has just been returned
C3_Witness == ret # None /\ pc = "end" /\ Len(ret) > 4 * BlockSize + 2 * IVLen

\* C4: the returned token, opened with the key derived from the secret alone
\* and the IV in its first 16 bytes, gives back exactly the bytes of
\* "{date of the invocation}_{secret}_xy521".
C4_RoundTrip ==
    (pc = "end" /\ ret # None)
        => Open(admin_secret_env, ret)
               = Utf8(Strftime(now) \o <<95>> \o admin_secret_env \o Suffix)

\* C4's case: a token returned for a secret that itself holds an underscore
C4_Witness ==
    /\ pc = "end"
    /\ ret # None
    /\ \E i \in 1..Len(admin_secret_env) : admin_secret_env[i] = 95
    /\ Len(admin_secret_env) > 1

\* C5 as stated: nothing written holds the secret, the key or the plaintext.
C5_NothingSensitiveWritten ==
    admin_secret_env # None
        => \A i \in 1..Len(stdout) :
               /\ ~Contains(stdout[i].text, admin_secret_env)
               /\ plain_text # None => ~Contains(stdout[i].text, plain_text)
               /\ key # None => ~Contains(stdout[i].text, Hex(key))

\* C5 as amended: generate_admin_secret writes to standard output only, and
\* what it writes there is the date stamp, the composed plaintext (with the
\* secret in it) and the token; the key is never written, and the token is
\* the only value returned.
C5_OnlyDatePlaintextTokenWritten ==
    /\ pc \in GenPcs => stderr = <<>>
    /\ \A i \in 1..Len(stdout) :
           /\ stdout[i].arg \in {"none", "date_str", "plain_text", "result"}
           /\ stdout[i].arg = "none" => stdout[i].text = <<>>
           /\ stdout[i].arg = "date_str" => stdout[i].text = date_str
           /\ stdout[i].arg = "plain_text" => stdout[i].text = plain_text
           /\ stdout[i].arg = "result" => stdout[i].text = result
    /\ ret \in {None, result}

\* C5's case: the plaintext line is on standard output, the secret in it
C5_Witness ==
    \E i \in 1..Len(stdout) :
        /\ stdout[i].arg = "plain_text"
        /\ stdout[i].text = plain_text
        /\ Contains(stdout[i].text, admin_secret_env)

\* the earlier and the later of two runs that returned a token for the same
\* secret on the same date
SameSecretAndDate(i, j) ==
    /\ i < j
    /\ history[i].outcome = "token"
    /\ history[j].outcome = "token"
    /\ history[i].secret = history[j].secret
    /\ history[i].date = history[j].date

\* C6 as stated: two invocations with the same secret on the same date
\* return different tokens, no IV being drawn twice.
C6_TokensAlwaysDiffer ==
    \A i, j \in 1..Len(history) :
        SameSecretAndDate(i, j)
            => /\ history[i].token # history[j].token
               /\ history[i].iv # history[j].iv

\* C6 as amended: every token starts with the IV its invocation drew, so two
\* invocations with the same secret on the same date return different tokens
\* exactly when their IVs differ; nothing keeps the two draws apart.
C6_TokensDifferIffIVsDiffer ==
    /\ \A i \in 1..Len(history) :
           history[i].outcome = "token"
               => SubSeq(history[i].token, 1, 2 * IVLen) = Hex(history[i].iv)
    /\ \A i, j \in 1..Len(history) :
           SameSecretAndDate(i, j)
               => (history[i].token = history[j].token
                       <=> history[i].iv = history[j].iv)

\* C6's case: same secret, same date, two different IVs, two different tokens
C6_Witness ==
    \E i, j \in 1..Len(history) :
        /\ SameSecretAndDate(i, j)
        /\ history[i].iv # history[j].iv
        /\ history[i].token # history[j].token

\* C7: the lines on standard output are, in this order, header, date stamp,
\* composed plaintext, token, footer, at every moment a beginning of that
\* list and on success all of it; the token printed is the token returned.
C7_OutputOrder ==
    /\ admin_secret_env # None => IsPrefix(StdoutLines, FiveLines)
    /\ ret # None
           => /\ StdoutLines = FiveLines
              /\ StdoutLines[4].text = ret

\* C7's case: a run that succeeded and has ended
C7_Witness == pc = "exited" /\ exit_code = 0 /\ ret # None /\ Len(StdoutLines) = 5

\* C8: the padding step (line 26, just done) appends n bytes of value n,
\* 1 <= n <= 16, up to a multiple of 16; a plaintext already a multiple of
\* 16 long gets 16 bytes of value 16.
C8_Padding ==
    pc = "L29"
        => LET data == Utf8(plain_text)
               n == Len(padded_data) - Len(data)
           IN  /\ 1 <= n
               /\ n <= BlockSize
               /\ Len(padded_data) % BlockSize = 0
               /\ SubSeq(padded_data, 1, Len(data)) = data
               /\ \A i \in (Len(data) + 1)..Len(padded_data) : padded_data[i] = n
               /\ Len(data) % BlockSize = 0 => n = BlockSize

\* C8's case: a plaintext whose UTF-8 length is a multiple of 16 was padded
C8_Witness ==
    /\ pc = "L29"
    /\ Len(Utf8(plain_text)) % BlockSize = 0
    /\ padded_data[Len(padded_data)] = BlockSize

\* C9: an invocation that raises (the secret does not encode, the random
\* source gives nothing) returns no token and has printed none of the five
\* lines; only os.urandom is ever asked for bytes, once; and a line is
\* printed only when the token is complete.
C9_NoPartialResults ==
    /\ (pc = "unhandled" \/ exit_code = 1)
           => /\ ret = None
              /\ result = None
              /\ StdoutLines = <<>>
    /\ entropy \in {<<>>, <<"os.urandom">>}
    /\ iv # None => entropy = <<"os.urandom">>
    /\ (StdoutLines # <<>> /\ admin_secret_env # None)
           => /\ ciphertext # None
              /\ result # None
              /\ pc = "L37" => result = Token(iv, ciphertext)

\* C9's case: the random source failed and the run has ended
C9_Witness ==
    /\ pc = "exited"
    /\ exit_code = 1
    /\ entropy = <<"os.urandom">>
    /\ iv = None
    /\ key # None

\* C10: the clock is read once in an invocation, so the date printed is the
\* date at the front of the plaintext that is padded and encrypted into the
\* token, also when the date changed while the invocation ran.
C10_OneDate ==
    /\ clock_reads <= 1
    /\ \A i \in 1..Len(stdout) :
           stdout[i].fmt = "date"
               => /\ stdout[i].text = Strftime(now)
                  /\ IsPrefix(stdout[i].text \o <<95>>, plain_text)
                  /\ IsPrefix(Utf8(stdout[i].text \o <<95>>), padded_data)
                  /\ pc = "L38" => result = Token(iv, CBCEncrypt(key, iv, padded_data))

\* C10's case: midnight passed between the read of the clock and the print
C10_Witness ==
    /\ pc = "L38"
    /\ Printed("date")
    /\ now # Today

====
